---- MODULE Spec2Model ----
(***************************************************************************)
(* parseSRT of droneMetrologyExporter (src/main.go): the subtitle record   *)
(* parser, its time-token parser and the bearing it derives.               *)
(*                                                                         *)
(* Text is modelled character by character: a string is a sequence of      *)
(* one-character strings, the three line classifiers r1, r2, r3 and the    *)
(* pattern of parseSrtTime are matched by a regular-expression matcher,    *)
(* and strconv.Atoi / strconv.ParseFloat are computed from the characters. *)
(* Samples live in a heap of objects because parseSRT appends the POINTER  *)
(* data to the output and keeps writing through it.                        *)
(***************************************************************************)
EXTENDS Integers, Sequences, FiniteSets, TLC

(***************************************************************************)
(* Characters and strings                                                  *)
(***************************************************************************)
Digit == {"0", "1", "2", "3", "4", "5", "6", "7", "8", "9"}

DigitVal(ch) ==
    CASE ch = "0" -> 0 [] ch = "1" -> 1 [] ch = "2" -> 2 [] ch = "3" -> 3
      [] ch = "4" -> 4 [] ch = "5" -> 5 [] ch = "6" -> 6 [] ch = "7" -> 7
      [] ch = "8" -> 8 [] ch = "9" -> 9

\* a string of the program, as the sequence of its characters
Chars(str) == [i \in 1..Len(str) |-> SubSeq(str, i, i)]

\* the newline byte on which strings.Split cuts the text
NL == "\n"

\* the character class [0-9:.,] of r2
TimeClass == Digit \cup {":", ".", ","}
\* the character class [0-9.] of r3
PlainClass == Digit \cup {"."}
\* the character class [0-9.-] of r3
SignedClass == Digit \cup {".", "-"}

\* the regular expression '.', which matches any character but a newline
ANY == "<any>"

(***************************************************************************)
(* Regular expressions.  A pattern is a sequence of elements               *)
(*   [t |-> "lit",  s |-> <<chars>>]   a literal (ANY matches one char)    *)
(*   [t |-> "star", s |-> class]       a capture group, class repeated     *)
(*   [t |-> "plus", s |-> class]       the same, at least one character    *)
(* In every pattern of the program the character after a group is outside  *)
(* the group's class, so the greedy group takes the whole run and no       *)
(* backtracking changes the result.                                        *)
(***************************************************************************)
Lit(s) == [t |-> "lit", s |-> s]
Star(cls) == [t |-> "star", s |-> cls]
Plus(cls) == [t |-> "plus", s |-> cls]

NoMatch == [ok |-> FALSE, caps |-> <<>>, end |-> 0]

\* first position >= i of l whose character is outside cls (Len(l)+1 if none)
RECURSIVE RunEnd(_, _, _)
RunEnd(l, i, cls) ==
    IF i > Len(l) \/ l[i] \notin cls THEN i ELSE RunEnd(l, i + 1, cls)

\* does the literal s occur in l at position i
LitAt(l, i, s) ==
    /\ i + Len(s) - 1 <= Len(l)
    /\ \A k \in 1..Len(s) : (s[k] = ANY /\ l[i + k - 1] # NL) \/ s[k] = l[i + k - 1]

\* match the elements k.. of pat against l from position i on; caps are the
\* groups captured so far
RECURSIVE MatchAt(_, _, _, _, _)
MatchAt(pat, k, l, i, caps) ==
    IF k > Len(pat) THEN [ok |-> TRUE, caps |-> caps, end |-> i]
    ELSE IF pat[k].t = "lit"
        THEN IF LitAt(l, i, pat[k].s)
                THEN MatchAt(pat, k + 1, l, i + Len(pat[k].s), caps)
                ELSE NoMatch
        ELSE LET j == RunEnd(l, i, pat[k].s)
             IN  IF pat[k].t = "plus" /\ j = i
                    THEN NoMatch
                    ELSE MatchAt(pat, k + 1, l, j, Append(caps, SubSeq(l, i, j - 1)))

\* the leftmost match of the unanchored pattern pat in l
Find(pat, l) ==
    LET starts == {i \in 1..Len(l) + 1 : MatchAt(pat, 1, l, i, <<>>).ok}
    IN  IF starts = {} THEN NoMatch
        ELSE MatchAt(pat, 1, l, CHOOSE i \in starts : \A j \in starts : i <= j, <<>>)

\* regexp.FindStringSubmatch: <<whole match, group 1, ...>>, or <<>> (nil)
\* when the pattern does not match; the whole match is kept as its length
\* only, the program never reads it
Submatch(m) == IF m.ok THEN <<m.end>> \o m.caps ELSE <<>>

FindStringSubmatch(pat, l) == Submatch(Find(pat, l))

\* the same for a pattern written ^...$
FindAnchored(pat, l) ==
    LET m == MatchAt(pat, 1, l, 1, <<>>)
    IN  IF m.ok /\ m.end = Len(l) + 1 THEN Submatch(m) ELSE <<>>

\* r1 := "^([0-9]*)$"
r1 == <<Star(Digit)>>

\* r2 := "([0-9:.,]*) --> ([0-9:.,]*)"
r2 == <<Star(TimeClass), Lit(Chars(" --> ")), Star(TimeClass)>>

\* r3 := "F/([0-9.]*), SS ([0-9.]*), ISO ([0-9.]*), EV ([0-9.-]*),
\*        DZOOM ([0-9.]*), GPS \(([0-9.-]*), ([0-9.-]*), ([0-9.-]*)\),
\*        D ([0-9.-]*)m, H ([0-9.-]*)m, H\.S ([0-9.-]*)m/s. V\.S ([0-9.-]*)m/s"
r3 ==
    << Lit(Chars("F/")), Star(PlainClass),
       Lit(Chars(", SS ")), Star(PlainClass),
       Lit(Chars(", ISO ")), Star(PlainClass),
       Lit(Chars(", EV ")), Star(SignedClass),
       Lit(Chars(", DZOOM ")), Star(PlainClass),
       Lit(Chars(", GPS (")), Star(SignedClass),
       Lit(Chars(", ")), Star(SignedClass),
       Lit(Chars(", ")), Star(SignedClass),
       Lit(Chars("), D ")), Star(SignedClass),
       Lit(Chars("m, H ")), Star(SignedClass),
       Lit(Chars("m, H.S ")), Star(SignedClass),
       Lit(Chars("m/s") \o <<ANY>> \o Chars(" V.S ")), Star(SignedClass),
       Lit(Chars("m/s")) >>

\* the pattern of parseSrtTime: "([0-9]+):([0-9]+):([0-9]+):([0-9]+)"
rTime ==
    << Plus(Digit), Lit(Chars(":")), Plus(Digit), Lit(Chars(":")),
       Plus(Digit), Lit(Chars(":")), Plus(Digit) >>

(***************************************************************************)
(* Numbers.  int is modelled with the width it has on Go's 32-bit          *)
(* platforms (strconv.IntSize = 32): the largest int is 2^31 - 1 and        *)
(* strconv works on an unsigned value of at most 2^32 - 1.  The values of  *)
(* the unsigned scan are kept as hi * Limb + lo so that no intermediate     *)
(* result leaves the range of the model checker's integers.                *)
(***************************************************************************)
MaxInt == 2147483647
MinInt == -MaxInt - 1
Limb == 100000
\* 2^32 - 1 = MaxUintHi * Limb + MaxUintLo
MaxUintHi == 42949
MaxUintLo == 67295
\* 2^31 = CutoffHi * Limb + CutoffLo
CutoffHi == 21474
CutoffLo == 83648

\* strconv.ParseUint(s, 10, 32) from character i on, n = hi * Limb + lo so
\* far: "syntax" at the first character that is no digit, "range" as soon
\* as the value passes 2^32 - 1, whichever the scan meets first
RECURSIVE ScanUint(_, _, _, _)
ScanUint(s, i, hi, lo) ==
    IF i > Len(s) THEN [err |-> "nil", hi |-> hi, lo |-> lo]
    ELSE IF s[i] \notin Digit THEN [err |-> "syntax", hi |-> 0, lo |-> 0]
    ELSE LET t   == lo * 10 + DigitVal(s[i])
             lo1 == t % Limb
             hi1 == hi * 10 + t \div Limb
         IN  IF hi1 > MaxUintHi \/ (hi1 = MaxUintHi /\ lo1 > MaxUintLo)
                THEN [err |-> "range", hi |-> MaxUintHi, lo |-> MaxUintLo]
                ELSE ScanUint(s, i + 1, hi1, lo1)

ParseUint(s) ==
    IF s = <<>> THEN [err |-> "syntax", hi |-> 0, lo |-> 0] ELSE ScanUint(s, 1, 0, 0)

\* strconv.Atoi(s): [v |-> the int returned, err |-> "nil" | "syntax" | "range"].
\* A syntax error returns 0; a range error returns the nearest int, MaxInt
\* or MinInt.
Atoi(s) ==
    IF s = <<>> THEN [v |-> 0, err |-> "syntax"]
    ELSE LET neg  == s[1] = "-"
             body == IF s[1] \in {"+", "-"} THEN Tail(s) ELSE s
             un   == ParseUint(body)
             big  == un.hi > CutoffHi \/ (un.hi = CutoffHi /\ un.lo >= CutoffLo)
         IN  IF un.err = "syntax" THEN [v |-> 0, err |-> "syntax"]
             ELSE IF ~neg /\ big THEN [v |-> MaxInt, err |-> "range"]
             ELSE IF neg /\ big /\ ~(un.hi = CutoffHi /\ un.lo = CutoffLo)
                THEN [v |-> MinInt, err |-> "range"]
             ELSE IF neg /\ big THEN [v |-> MinInt, err |-> un.err]
             ELSE IF un.err = "range" THEN [v |-> MaxInt, err |-> "range"]
             ELSE [v |-> (IF neg THEN -1 ELSE 1) * (un.hi * Limb + un.lo), err |-> "nil"]

(***************************************************************************)
(* float64 values are modelled by the decimal they were written as:        *)
(* [m, e] stands for m / 10^e, with no trailing zero in the fraction, so   *)
(* that 1.00 and 1 are the same value (strconv.ParseFloat is injective on  *)
(* decimals of at most 15 significant digits, which bounds the tokens).    *)
(***************************************************************************)
RECURSIVE Normal(_, _)
Normal(m, e) ==
    IF m = 0 THEN [m |-> 0, e |-> 0]
    ELSE IF e > 0 /\ m % 10 = 0 THEN Normal(m \div 10, e - 1)
    ELSE [m |-> m, e |-> e]

Zero == [m |-> 0, e |-> 0]

\* the digits of s from i on as a number, skipping one '.': [ok, m, e, dots, digits]
RECURSIVE ScanFloat(_, _, _, _, _, _)
ScanFloat(s, i, m, e, dots, digits) ==
    IF i > Len(s) THEN [ok |-> dots <= 1 /\ digits > 0, m |-> m, e |-> e]
    ELSE IF s[i] = "." THEN
        IF dots = 1 THEN [ok |-> FALSE, m |-> 0, e |-> 0]
        ELSE ScanFloat(s, i + 1, m, e, 1, digits)
    ELSE IF s[i] \in Digit THEN
        ScanFloat(s, i + 1, m * 10 + DigitVal(s[i]), e + dots, dots, digits + 1)
    ELSE [ok |-> FALSE, m |-> 0, e |-> 0]

\* strconv.ParseFloat(s, 64): the value and the error; a syntax error
\* returns 0.  (A range error needs more than 300 digits.)
ParseFloat(s) ==
    IF s = <<>> THEN [v |-> Zero, err |-> "syntax"]
    ELSE LET neg  == s[1] = "-"
             body == IF s[1] \in {"+", "-"} THEN Tail(s) ELSE s
             r    == ScanFloat(body, 1, 0, 0, 0, 0)
         IN  IF r.ok THEN [v |-> Normal((IF neg THEN -1 ELSE 1) * r.m, r.e), err |-> "nil"]
             ELSE [v |-> Zero, err |-> "syntax"]

(***************************************************************************)
(* Times.  A time.Time is [day, sec, nsec]: the day counted from           *)
(* 0000-01-01 (the date makeTime anchors to), the second of that day and   *)
(* the nanosecond of that second, in UTC.                                  *)
(***************************************************************************)
\* time.Time{}, the zero value: 0001-01-01 00:00:00 UTC, 366 days after
\* 0000-01-01 (year 0 is a leap year)
ZeroTime == [day |-> 366, sec |-> 0, nsec |-> 0]

\* a + n in 32-bit two's complement, for a, n in the range of int
AddWrap(a, n) ==
    IF n >= 0 /\ a > MaxInt - n THEN MinInt + (n - (MaxInt - a) - 1)
    ELSE IF n < 0 /\ a < MinInt - n THEN MaxInt - ((MinInt - a) - n - 1)
    ELSE a + n

\* ms * 1000 * 1000 in 32-bit two's complement, for 0 <= ms <= MaxInt,
\* computed on 16-bit halves (1000000 = 15 * 65536 + 16960)
MulMillion(ms) ==
    LET a   == ms \div 65536
        b   == ms % 65536
        low == b * 16960
        lo  == low % 65536
        hi  == (a * 16960 + b * 15 + low \div 65536) % 65536
    IN  IF hi >= 32768 THEN (hi - 65536) * 65536 + lo ELSE hi * 65536 + lo

\* norm of package time: carry lo into hi so that 0 <= lo < base
Norm(hi, lo, base) ==
    [hi |-> AddWrap(hi, lo \div base), lo |-> lo % base]

\* time.Date(0, 1, 1, h, m, s, nsec, time.UTC)
Date(h, m, s, nsec) ==
    LET n1 == Norm(s, nsec, 1000000000)
        n2 == Norm(m, n1.hi, 60)
        n3 == Norm(h, n2.hi, 60)
        n4 == Norm(0, n3.hi, 24)
    IN  [day |-> n4.hi, sec |-> (n4.lo * 60 + n3.lo) * 60 + n2.lo, nsec |-> n1.lo]

\* makeTime is a helper to create a time duration.
makeTime(h, m, s, ms) == Date(h, m, s, MulMillion(ms))

\* strings.ReplaceAll(in, old, new) for one-character old and new
ReplaceAll(in, old, new) ==
    [i \in 1..Len(in) |-> IF in[i] = old THEN new ELSE in[i]]

\* strings.Count(in, ch) for a one-character ch
Count(in, ch) == Cardinality({i \in 1..Len(in) : in[i] = ch})

\* parseSrtTime(in): [t, err]; now is what time.Now() returns, the value
\* the function hands back beside every error
parseSrtTime(in, now) ==
    LET in1 == ReplaceAll(ReplaceAll(in, ",", ":"), ".", ":")
        in2 == IF Count(in1, ":") = 2 THEN in1 \o Chars(":000") ELSE in1
        matches == FindStringSubmatch(rTime, in2)
        h  == Atoi(matches[2])
        m  == Atoi(matches[3])
        s  == Atoi(matches[4])
        ms == Atoi(matches[5])
    IN  IF Len(matches) < 5 THEN [t |-> now, err |-> "nomatch"]
        ELSE IF h.err # "nil" THEN [t |-> now, err |-> h.err]
        ELSE IF m.err # "nil" THEN [t |-> now, err |-> m.err]
        ELSE IF s.err # "nil" THEN [t |-> now, err |-> s.err]
        ELSE IF ms.err # "nil" THEN [t |-> now, err |-> ms.err]
        ELSE [t |-> makeTime(h.v, m.v, s.v, ms.v), err |-> "nil"]

(***************************************************************************)
(* The bearing.  BearingTo is atan2(y, x) in degrees with                  *)
(*   y = sin(dLon) cos(lat2),                                              *)
(*   x = cos(lat1) sin(lat2) - sin(lat1) cos(lat2) cos(dLon).              *)
(* With equal longitudes dLon = 0, so y = 0 and the result is exactly 0    *)
(* (x >= 0: same point, or due north) or exactly 180 (x < 0: due south).   *)
(* With different longitudes y # 0 and the result is neither; it is kept   *)
(* as the pair of points it was computed from.  (Coordinates are taken     *)
(* away from the poles and less than 360 degrees apart.)                   *)
(***************************************************************************)
Degrees(d) == [exact |-> TRUE, deg |-> d, of |-> <<>>]

RECURSIVE Pow10(_)
Pow10(n) == IF n = 0 THEN 1 ELSE 10 * Pow10(n - 1)

\* a < b for two decimal values
DecLess(a, b) ==
    IF a.e >= b.e THEN a.m < b.m * Pow10(a.e - b.e)
                  ELSE a.m * Pow10(b.e - a.e) < b.m

\* func BearingTo(p1, p2 *Point) float64
BearingTo(p1, p2) ==
    IF p2.lng = p1.lng
        THEN IF DecLess(p2.lat, p1.lat) THEN Degrees(180) ELSE Degrees(0)
        ELSE [exact |-> FALSE, deg |-> 0, of |-> <<p1, p2>>]

\* Point{lat, lng}
Point(lat, lng) == [lat |-> lat, lng |-> lng]

(***************************************************************************)
(* Samples                                                                 *)
(***************************************************************************)
\* &MetrologySample{}: every field has its zero value
EmptySample ==
    [ID |-> 0, Start |-> ZeroTime, End |-> ZeroTime, FStop |-> Zero,
     Shutter |-> Zero, ISO |-> 0, EV |-> Zero, Zoom |-> 0, Latitude |-> Zero,
     Longitude |-> Zero, Sources |-> 0, Bearing |-> Degrees(0), DTH |-> Zero,
     Altitude |-> Zero, HorizontalSpeed |-> Zero, VerticalSpeed |-> Zero]

\* Decode with a conversion that leaves iso alone when Atoi fails
DecodeKeepsIsoOnError(d, dm) ==
    [d EXCEPT !.FStop = ParseFloat(dm[2]).v,
              !.Shutter = ParseFloat(dm[3]).v,
              !.ISO = IF Atoi(dm[4]).err = "nil" THEN Atoi(dm[4]).v ELSE d.ISO,
              !.EV = ParseFloat(dm[5]).v,
              !.Zoom = Atoi(dm[6]).v,
              !.Longitude = ParseFloat(dm[7]).v,
              !.Latitude = ParseFloat(dm[8]).v,
              !.Sources = Atoi(dm[9]).v,
              !.DTH = ParseFloat(dm[10]).v,
              !.Altitude = ParseFloat(dm[11]).v,
              !.HorizontalSpeed = ParseFloat(dm[12]).v,
              !.VerticalSpeed = ParseFloat(dm[12]).v]

\* Decode with the vertical speed read from the group of V.S
DecodeReadsVerticalSpeed(d, dm) ==
    [d EXCEPT !.FStop = ParseFloat(dm[2]).v,
              !.Shutter = ParseFloat(dm[3]).v,
              !.ISO = Atoi(dm[4]).v,
              !.EV = ParseFloat(dm[5]).v,
              !.Zoom = Atoi(dm[6]).v,
              !.Longitude = ParseFloat(dm[7]).v,
              !.Latitude = ParseFloat(dm[8]).v,
              !.Sources = Atoi(dm[9]).v,
              !.DTH = ParseFloat(dm[10]).v,
              !.Altitude = ParseFloat(dm[11]).v,
              !.HorizontalSpeed = ParseFloat(dm[12]).v,
              !.VerticalSpeed = ParseFloat(dm[13]).v]

\* the twelve assignments of a data line: dm is dataMatches, dm[k + 1] the
\* group that Go calls dataMatches[k]
Decode(d, dm) ==
    [d EXCEPT !.FStop = ParseFloat(dm[2]).v,
              !.Shutter = ParseFloat(dm[3]).v,
              !.ISO = Atoi(dm[4]).v,
              !.EV = ParseFloat(dm[5]).v,
              !.Zoom = Atoi(dm[6]).v,
              !.Longitude = ParseFloat(dm[7]).v,
              !.Latitude = ParseFloat(dm[8]).v,
              !.Sources = Atoi(dm[9]).v,
              !.DTH = ParseFloat(dm[10]).v,
              !.Altitude = ParseFloat(dm[11]).v,
              !.HorizontalSpeed = ParseFloat(dm[12]).v,
              !.VerticalSpeed = ParseFloat(dm[12]).v]

\* Heading without the rule for 0 and 180
HeadingAlwaysComputed(prev, d) ==
    BearingTo(Point(prev.Latitude, prev.Longitude), Point(d.Latitude, d.Longitude))

\* the bearing a data line gives the sample d when prev is the last sample
\* of the output (read after d's own fields were written)
Heading(prev, d) ==
    LET bearing == BearingTo(Point(prev.Latitude, prev.Longitude),
                             Point(d.Latitude, d.Longitude))
    IN  IF bearing = Degrees(0) \/ bearing = Degrees(180)
            THEN prev.Bearing
            ELSE bearing

\* strings.Split(s, "\n"): the pieces of s between newlines, at least one
Split(s) ==
    LET cuts == {i \in 1..Len(s) : s[i] = NL}
        \* the k-th newline of s; position 0 and Len(s) + 1 close the ends
        cut(k) == IF k = 0 THEN 0
                  ELSE IF k > Cardinality(cuts) THEN Len(s) + 1
                  ELSE CHOOSE i \in cuts : Cardinality({j \in cuts : j < i}) = k - 1
    IN  [k \in 1..Cardinality(cuts) + 1 |-> SubSeq(s, cut(k - 1) + 1, cut(k) - 1)]

(***************************************************************************)
(* Inputs.  A file is the 3 bytes of a byte-order mark followed by lines   *)
(* joined by newlines; the files of fewer than 3 bytes are the empty file  *)
(* and a cut byte-order mark.                                              *)
(***************************************************************************)
BOM == <<"<EF>", "<BB>", "<BF>">>

RECURSIVE Join(_)
Join(ls) ==
    IF ls = <<>> THEN <<>>
    ELSE IF Len(ls) = 1 THEN ls[1]
    ELSE ls[1] \o <<NL>> \o Join(Tail(ls))

RECURSIVE Flatten(_)
Flatten(ss) == IF ss = <<>> THEN <<>> ELSE ss[1] \o Flatten(Tail(ss))

SeqsUpTo(S, n) == UNION {[1..k -> S] : k \in 0..n}

ShortFiles == {<<>>, SubSeq(BOM, 1, 2)}


FileOf(ls) == BOM \o Join(ls)

\* the lines of the example in the head of main.go
IndexText == "44"
TimeText == "00:00:43,000 --> 00:00:44,000"
DataText == "F/2.8, SS 141.87, ISO 110, EV -0.7, DZOOM 1.000, GPS (-69.9191, 46.8451, 19), D 31.42m, H 11.80m, H.S 1.00m/s, V.S 0.70m/s"

\* a file without a byte-order mark: parseSRT drops its first 3 bytes all the same
PlainFiles == {Join(<<Chars(IndexText), Chars(TimeText), Chars(DataText)>>)}

\* the same data line with a sub-field that is no number
DataIsoDots == "F/2.8, SS 141.87, ISO 1.1.0, EV -0.7, DZOOM 1.000, GPS (-69.9191, 46.8451, 19), D 31.42m, H 11.80m, H.S 1.00m/s, V.S 0.70m/s"
DataEvBad == "F/2.8, SS 141.87, ISO 110, EV 0.7-, DZOOM 1.000, GPS (-69.9191, 46.8451, 19), D 31.42m, H 11.80m, H.S 1.00m/s, V.S 0.70m/s"
DataIsoAbc == "F/2.8, SS 141.87, ISO abc, EV -0.7, DZOOM 1.000, GPS (-69.9191, 46.8451, 19), D 31.42m, H 11.80m, H.S 1.00m/s, V.S 0.70m/s"
\* an index line beyond the range of int, and time-range lines with a token
\* that is no time
BigIndexText == "99999999999999999999"
BadStartText == "00:43 --> 00:00:44,000"
BadEndText == "00:00:43,000 --> "

\* data lines at the same place, to the north, to the south and to the
\* east of the place of DataText
DataNorth == "F/2.8, SS 141.87, ISO 110, EV -0.7, DZOOM 1.000, GPS (-69.9191, 46.8452, 19), D 31.42m, H 11.80m, H.S 1.00m/s, V.S 0.70m/s"
DataSouth == "F/2.8, SS 141.87, ISO 110, EV -0.7, DZOOM 1.000, GPS (-69.9191, 46.8450, 19), D 31.42m, H 11.80m, H.S 1.00m/s, V.S 0.70m/s"
DataEast == "F/2.8, SS 141.87, ISO 110, EV -0.7, DZOOM 1.000, GPS (-69.9190, 46.8451, 19), D 31.42m, H 11.80m, H.S 1.00m/s, V.S 0.70m/s"

\* the longest file of Spec and of SpecMalformed, in lines
MaxLines == 4
\* the longest file of SpecBearing, in blocks
MaxBlocks == 4

\* the lines the files of Spec are made of
SpecLines ==
    { Chars(""), Chars(IndexText), Chars("7"), Chars(TimeText), Chars(DataText),
      Chars("DJI Mini 2") }

\* the lines the files of SpecMalformed are made of
MalformedLines ==
    { Chars(""), Chars(BigIndexText), Chars(BadStartText), Chars(BadEndText),
      Chars(DataIsoDots), Chars(DataEvBad), Chars(DataIsoAbc) }

\* the blocks the files of SpecBearing are made of: a data line followed by
\* a blank line, a data line followed by none, and a block with its index
\* and time-range lines and a line of no kind
BearingBlocks ==
    { <<Chars(DataText), Chars("")>>, <<Chars(DataNorth), Chars("")>>,
      <<Chars(DataSouth), Chars("")>>, <<Chars(DataEast), Chars("")>>,
      <<Chars(DataEast)>>,
      <<Chars(IndexText), Chars(TimeText), Chars("DJI Mini 2"), Chars(DataText), Chars("")>> }

\* the longest file of SpecTime, of SpecSpeed and of SpecTwice, in lines
MaxShort == 3

\* the end token of the example, and start tokens for parseSrtTime: four
\* groups, three groups, none, two groups, five groups, an empty group in the
\* middle and in front, and an hour beyond the range of int
GoodEndText == "00:00:44,000"
StartTokens ==
    { "01:02:03,004", "01:02:03", "", "02:03", "01:02:03,004,5", "01::03,004",
      ",01:02:03,004", "99999999999999999999:02:03,004" }

\* the time-range line with start token tok
TimeLineOf(tok) == Chars(tok) \o Chars(" --> ") \o Chars(GoodEndText)

\* the lines the files of SpecTime are made of
TimeLines ==
    { Chars(""), Chars(IndexText), Chars(DataText), Chars("DJI Mini 2") }
        \cup {TimeLineOf(tok) : tok \in StartTokens}

\* lines that more than one classifier could take, or none: a line of text
\* around an arrow, the data line followed by an arrow, and the data line
\* inside other text
ArrowText == "DJI --> Mini 2"
DataArrowText == "F/2.8, SS 141.87, ISO 110, EV -0.7, DZOOM 1.000, GPS (-69.9191, 46.8451, 19), D 31.42m, H 11.80m, H.S 1.00m/s, V.S 0.70m/s --> "
DataPaddedText == "> F/2.8, SS 141.87, ISO 110, EV -0.7, DZOOM 1.000, GPS (-69.9191, 46.8451, 19), D 31.42m, H 11.80m, H.S 1.00m/s, V.S 0.70m/s <"

\* the lines the files of SpecClassify are made of
ClassifyLines ==
    { Chars(""), Chars(IndexText), Chars(TimeText), Chars(DataText), Chars("DJI Mini 2"),
      Chars(ArrowText), Chars(DataArrowText), Chars(DataPaddedText) }

\* the data line of the example with another V.S number (climbing, sinking)
\* and with another H.S number
DataClimbText == "F/2.8, SS 141.87, ISO 110, EV -0.7, DZOOM 1.000, GPS (-69.9191, 46.8451, 19), D 31.42m, H 11.80m, H.S 1.00m/s, V.S 2.50m/s"
DataSinkText == "F/2.8, SS 141.87, ISO 110, EV -0.7, DZOOM 1.000, GPS (-69.9191, 46.8451, 19), D 31.42m, H 11.80m, H.S 1.00m/s, V.S -1.30m/s"
DataFastText == "F/2.8, SS 141.87, ISO 110, EV -0.7, DZOOM 1.000, GPS (-69.9191, 46.8451, 19), D 31.42m, H 11.80m, H.S 3.20m/s, V.S 0.70m/s"

\* the lines the files of SpecSpeed are made of
SpeedLines ==
    { Chars(""), Chars(IndexText), Chars(TimeText), Chars("DJI Mini 2"), Chars(DataText),
      Chars(DataClimbText), Chars(DataSinkText), Chars(DataFastText) }

\* the calls of parseSRT on the same bytes in SpecTwice
MaxCalls == 2

\* the lines the files of SpecTwice are made of
TwiceLines ==
    { Chars(""), Chars(IndexText), Chars(TimeText), Chars(BadStartText), Chars(DataText),
      Chars("DJI Mini 2") }

AllLines ==
    SpecLines \cup MalformedLines \cup TimeLines \cup ClassifyLines \cup TwiceLines
        \cup SpeedLines
        \cup UNION {{blk[i] : i \in 1..Len(blk)} : blk \in BearingBlocks}

(***************************************************************************)
(* parseSRT as a state machine: one step per line of the input.            *)
(***************************************************************************)
VARIABLES
    pc,         \* "start", "loop", "returned", or "panicked" (run-time panic)
    b,          \* the bytes parseSRT is called with
    now,        \* the wall clock, an index into Clock
    lines,      \* strings.Split(string(b[3:]), "\n")
    c,          \* the line the loop is at, counted from 1 (Go's c + 1)
    heap,       \* the MetrologySample objects allocated so far, by address
    data,       \* the pointer data: an address of heap
    metrology,  \* the output: a sequence of pointers
    dataLen,    \* the count of appended samples
    stdout,     \* what fmt.Printf wrote: the lines it complained about
    results     \* what the caller got from its earlier calls of parseSRT

vars == <<pc, b, now, lines, c, heap, data, metrology, dataLen, stdout, results>>

\* two readings of the wall clock, both in the year 2026
Clock ==
    << [day |-> 740200, sec |-> 36000, nsec |-> 111],
       [day |-> 740200, sec |-> 36001, nsec |-> 222] >>

idMatches(l) == FindAnchored(r1, l)
timeMatches(l) == FindStringSubmatch(r2, l)
dataMatches(l) == FindStringSubmatch(r3, l)

\* The three matches of every line of the model's files, computed once:
\* what the loop body finds out about a line depends on the line only.
Classified ==
    { [line |-> l, id |-> idMatches(l), time |-> timeMatches(l), data |-> dataMatches(l)] :
        l \in AllLines }

Matches(l) == CHOOSE e \in Classified : e.line = l

\* the if-chain of the loop body: which branch a line takes
IsBlankLine(l) == l = <<>>
IsIndexLine(l) == ~IsBlankLine(l) /\ Len(Matches(l).id) = 2
\* the test of r2 placed after the test of r3
IsTimeLineAfterData(l) ==
    ~IsBlankLine(l) /\ ~IsIndexLine(l) /\ Len(Matches(l).data) < 3 /\ Len(Matches(l).time) = 3

IsTimeLine(l) == ~IsBlankLine(l) /\ ~IsIndexLine(l) /\ Len(Matches(l).time) = 3
IsDataLine(l) ==
    ~IsBlankLine(l) /\ ~IsIndexLine(l) /\ ~IsTimeLine(l) /\ Len(Matches(l).data) >= 3
IsOtherLine(l) ==
    ~IsBlankLine(l) /\ ~IsIndexLine(l) /\ ~IsTimeLine(l) /\ ~IsDataLine(l)

\* the test written dataLen > 0
HasPreviousFromSecond(n) == n > 0

\* if dataLen > 1: the bearing is computed from the third sample on
HasPrevious(n) == n > 1

\* the index written dataLen: one past the last sample of the output
PreviousAtLen(n) == n + 1

\* metrology[dataLen-1]: the place of the last sample, counted from 1
Previous(n) == n

\* the bounds check of an index expression m[i], i counted from 1
InBounds(m, i) == i \in 1..Len(m)

\* an append that drops a pointer already at the end of the output
AppendUnlessRepeated(m, d) == IF m # <<>> /\ m[Len(m)] = d THEN m ELSE Append(m, d)

\* metrology = append(metrology, data)
AppendSample(m, d) == Append(m, d)

InLoop == pc = "loop" /\ c <= Len(lines)

\* s := string(b[3:]); lines := strings.Split(s, "\n"); data := &MetrologySample{}
Begin ==
    /\ pc = "start"
    /\ Len(b) >= 3
    /\ lines' = Split(SubSeq(b, 4, Len(b)))
    /\ c' = 1
    /\ heap' = <<EmptySample>>
    /\ data' = 1
    /\ metrology' = <<>>
    /\ dataLen' = 0
    /\ pc' = "loop"
    /\ UNCHANGED <<b, now, stdout, results>>

\* b[3:] of fewer than 3 bytes: slice bounds out of range
BeginPanic ==
    /\ pc = "start"
    /\ Len(b) < 3
    /\ pc' = "panicked"
    /\ UNCHANGED <<b, now, lines, c, heap, data, metrology, dataLen, stdout, results>>

\* if l == "" { data = &MetrologySample{}; continue }
BlankLine ==
    /\ InLoop
    /\ IsBlankLine(lines[c])
    /\ heap' = Append(heap, EmptySample)
    /\ data' = Len(heap) + 1
    /\ c' = c + 1
    /\ UNCHANGED <<pc, b, now, lines, metrology, dataLen, stdout, results>>

\* if len(idMatches) == 2 { data.ID, _ = strconv.Atoi(idMatches[1]); continue }
IndexLine ==
    /\ InLoop
    /\ IsIndexLine(lines[c])
    /\ heap' = [heap EXCEPT ![data].ID = Atoi(Matches(lines[c]).id[2]).v]
    /\ c' = c + 1
    /\ UNCHANGED <<pc, b, now, lines, data, metrology, dataLen, stdout, results>>

\* if len(timeMatches) == 3 { data.Start, err = ...; data.End, err = ...; continue }
\* Each call of parseSrtTime reads the clock when it fails; the clock does
\* not go back.
TimeLine ==
    /\ InLoop
    /\ IsTimeLine(lines[c])
    /\ \E n1 \in now..Len(Clock) : \E n2 \in n1..Len(Clock) :
        LET tm    == Matches(lines[c]).time
            start == parseSrtTime(tm[2], Clock[n1])
            end   == parseSrtTime(tm[3], Clock[n2])
        IN  /\ heap' = [heap EXCEPT ![data].Start = start.t, ![data].End = end.t]
            /\ stdout' = stdout
                    \o (IF start.err # "nil" THEN <<[line |-> c - 1, err |-> start.err]>> ELSE <<>>)
                    \o (IF end.err # "nil" THEN <<[line |-> c - 1, err |-> end.err]>> ELSE <<>>)
            /\ now' = IF end.err # "nil" THEN n2
                      ELSE IF start.err # "nil" THEN n1 ELSE now
            /\ (start.err = "nil" => n1 = now)
            /\ (end.err = "nil" => n2 = n1)
    /\ c' = c + 1
    /\ UNCHANGED <<pc, b, lines, data, metrology, dataLen, results>>

\* if len(dataMatches) >= 3 { ...; metrology = append(metrology, data); dataLen++; continue }
DataLine ==
    /\ InLoop
    /\ IsDataLine(lines[c])
    /\ LET decoded == [heap EXCEPT ![data] = Decode(heap[data], Matches(lines[c]).data)]
       IN  IF HasPrevious(dataLen) /\ ~InBounds(metrology, Previous(dataLen))
              THEN \* index out of range: the call ends in a run-time panic
                   /\ heap' = decoded
                   /\ pc' = "panicked"
                   /\ UNCHANGED <<c, metrology, dataLen, results>>
              ELSE /\ heap' = IF HasPrevious(dataLen)
                                 THEN [decoded EXCEPT ![data].Bearing =
                                           Heading(decoded[metrology[Previous(dataLen)]],
                                                   decoded[data])]
                                 ELSE decoded
                   /\ metrology' = AppendSample(metrology, data)
                   /\ dataLen' = dataLen + 1
                   /\ c' = c + 1
                   /\ pc' = pc
    /\ UNCHANGED <<b, now, lines, data, stdout, results>>

\* a line that matches none of r1, r2, r3: the loop goes on
OtherLine ==
    /\ InLoop
    /\ IsOtherLine(lines[c])
    /\ c' = c + 1
    /\ UNCHANGED <<pc, b, now, lines, heap, data, metrology, dataLen, stdout, results>>

\* return metrology
Return ==
    /\ pc = "loop"
    /\ c > Len(lines)
    /\ pc' = "returned"
    /\ UNCHANGED <<b, now, lines, c, heap, data, metrology, dataLen, stdout, results>>

\* metrologyData := parseSRT(data), and a second call on the same bytes: the
\* caller keeps the samples it was given
CallAgain ==
    /\ pc = "returned"
    /\ Len(results) + 1 < MaxCalls
    /\ results' = Append(results, [i \in 1..Len(metrology) |-> heap[metrology[i]]])
    /\ pc' = "start"
    /\ UNCHANGED <<b, now, lines, c, heap, data, metrology, dataLen, stdout>>

Next ==
    \/ Begin
    \/ BeginPanic
    \/ BlankLine
    \/ IndexLine
    \/ TimeLine
    \/ DataLine
    \/ OtherLine
    \/ Return

InitWith(files) ==
    /\ b \in files
    /\ pc = "start"
    /\ now = 1
    /\ lines = <<>>
    /\ c = 0
    /\ heap = <<>>
    /\ data = 0
    /\ metrology = <<>>
    /\ dataLen = 0
    /\ stdout = <<>>
    /\ results = <<>>

Init ==
    InitWith(ShortFiles \cup PlainFiles
        \cup {FileOf(ls) : ls \in SeqsUpTo(SpecLines, MaxLines)})

Spec == Init /\ [][Next]_vars

\* files with malformed index lines, time tokens and numeric sub-fields
InitMalformed ==
    InitWith(ShortFiles \cup {FileOf(ls) : ls \in SeqsUpTo(MalformedLines, MaxLines)})

SpecMalformed == InitMalformed /\ [][Next]_vars

\* files of several blocks, long enough for the bearing to be computed
InitBearing ==
    InitWith(ShortFiles
        \cup {FileOf(Flatten(bs)) : bs \in SeqsUpTo(BearingBlocks, MaxBlocks)})

SpecBearing == InitBearing /\ [][Next]_vars

\* files whose time-range lines carry the start tokens of StartTokens
InitTime ==
    InitWith(ShortFiles \cup {FileOf(ls) : ls \in SeqsUpTo(TimeLines, MaxShort)})

SpecTime == InitTime /\ [][Next]_vars

\* files with lines that several classifiers match, or none
InitClassify ==
    InitWith(ShortFiles \cup {FileOf(ls) : ls \in SeqsUpTo(ClassifyLines, MaxShort)})

SpecClassify == InitClassify /\ [][Next]_vars

\* files whose data lines differ in their speeds
InitSpeed ==
    InitWith(ShortFiles \cup {FileOf(ls) : ls \in SeqsUpTo(SpeedLines, MaxShort)})

SpecSpeed == InitSpeed /\ [][Next]_vars

\* a caller that calls parseSRT MaxCalls times on the same bytes, one call
\* after the other
NextTwice == Next \/ CallAgain

InitTwice ==
    InitWith(ShortFiles \cup {FileOf(ls) : ls \in SeqsUpTo(TwiceLines, MaxShort)})

SpecTwice == InitTwice /\ [][NextTwice]_vars

(***************************************************************************)
(* Properties                                                              *)
(***************************************************************************)
\* parseSRT is in its loop or has returned: lines 1 .. c - 1 are processed
Running == pc \in {"loop", "returned"}

\* the data lines among the first k lines
DataLinesIn(k) == {i \in 1..k : IsDataLine(lines[i])}

\* the i-th sample of the output
SampleAt(i) == heap[metrology[i]]

\* the line the loop has just processed is l
JustProcessed(l) == Running /\ c > 1 /\ lines[c - 1] = l

\* the decimal m / 10^e and the clock time of s seconds after midnight
Dec(m, e) == [m |-> m, e |-> e]
ClockTime(s) == [day |-> 0, sec |-> s, nsec |-> 0]

\* C1: for a well-formed block (index line 44, time-range line
\* 00:00:43,000 --> 00:00:44,000, data line) in the input, the returned output
\* has exactly one sample per data line and the sample of that block has id 44,
\* start 43 s and end 44 s.
C1_BlockYieldsItsSample ==
    pc = "returned" =>
        \A k \in 1..Len(lines) - 2 :
            ( /\ lines[k] = Chars(IndexText)
              /\ lines[k + 1] = Chars(TimeText)
              /\ lines[k + 2] = Chars(DataText) ) =>
                LET j == Cardinality(DataLinesIn(k + 2))
                IN  /\ Len(metrology) = Cardinality(DataLinesIn(Len(lines)))
                    /\ SampleAt(j).ID = 44
                    /\ SampleAt(j).Start = ClockTime(43)
                    /\ SampleAt(j).End = ClockTime(44)

\* C2: the sample emitted for the data line of the example has the literal
\* numbers of the line: fStop 2.8, shutter 141.87, iso 110, ev -0.7, zoom 1,
\* longitude -69.9191, latitude 46.8451, satelliteCount 19, distanceToHome
\* 31.42, altitude 11.80, horizontalSpeed 1.00.
C2_FieldsEqualLiterals ==
    JustProcessed(Chars(DataText)) =>
        LET s == SampleAt(dataLen)
        IN  /\ s.FStop = Dec(28, 1)
            /\ s.Shutter = Dec(14187, 2)
            /\ s.ISO = 110
            /\ s.EV = Dec(-7, 1)
            /\ s.Zoom = 1
            /\ s.Longitude = Dec(-699191, 4)
            /\ s.Latitude = Dec(468451, 4)
            /\ s.Sources = 19
            /\ s.DTH = Dec(3142, 2)
            /\ s.Altitude = Dec(118, 1)
            /\ s.HorizontalSpeed = Dec(1, 0)

\* C3: once a sample is in the output no later line changes any of its
\* fields, and no two positions of the output hold the same sample.
C3_AppendedSamplesAreFinal ==
    [][ /\ \A i \in 1..Len(metrology) : heap'[metrology[i]] = heap[metrology[i]]
        /\ \A i, j \in 1..Len(metrology') : i # j => metrology'[i] # metrology'[j] ]_vars

\* what the specification calls a number: digits with an optional sign, and the
\* same with at most one decimal point
Unsigned(tok) == IF tok # <<>> /\ tok[1] = "-" THEN Tail(tok) ELSE tok
IsInteger(tok) ==
    /\ Unsigned(tok) # <<>>
    /\ \A i \in 1..Len(Unsigned(tok)) : Unsigned(tok)[i] \in Digit
IsDecimal(tok) ==
    /\ \A i \in 1..Len(Unsigned(tok)) : Unsigned(tok)[i] \in PlainClass
    /\ \E i \in 1..Len(Unsigned(tok)) : Unsigned(tok)[i] \in Digit
    /\ Cardinality({i \in 1..Len(Unsigned(tok)) : Unsigned(tok)[i] = "."}) <= 1

\* the value the specification gives a sub-field: the number it spells, 0 if none
IntField(tok) == IF IsInteger(tok) THEN Atoi(tok).v ELSE 0
DecField(tok) == IF IsDecimal(tok) THEN ParseFloat(tok).v ELSE Zero

\* the lines of the files of SpecMalformed that match r3
MalformedDataLines == {Chars(DataIsoDots), Chars(DataEvBad)}

C5_NoBlockGivesEmptyOutput ==
    /\ Len(b) = 0 => pc # "panicked"
    /\ (pc = "returned" /\ DataLinesIn(Len(lines)) = {}) => metrology = <<>>

\* the two points a bearing is computed from
PlaceOf(s) == Point(s.Latitude, s.Longitude)

\* C6: a sample appended when at least 2 samples are in the output has the
\* bearing of the sample before it if the bearing computed from that sample's
\* coordinate to its own is exactly 0 or 180 (as it is for identical
\* coordinates), and the computed bearing otherwise.
C6_BearingRule ==
    (Running /\ c > 1 /\ IsDataLine(lines[c - 1]) /\ dataLen > 2) =>
        LET prev     == SampleAt(dataLen - 1)
            cur      == SampleAt(dataLen)
            computed == BearingTo(PlaceOf(prev), PlaceOf(cur))
        IN  /\ (computed.exact /\ computed.deg \in {0, 180}) => cur.Bearing = prev.Bearing
            /\ ~(computed.exact /\ computed.deg \in {0, 180}) => cur.Bearing = computed
            /\ PlaceOf(prev) = PlaceOf(cur) => cur.Bearing = prev.Bearing

\* a fourth sample at the place of the third, another object, that took over
\* the third's computed bearing
C6_Witness ==
    /\ Running /\ c > 1 /\ IsDataLine(lines[c - 1]) /\ dataLen > 3
    /\ metrology[dataLen] # metrology[dataLen - 1]
    /\ PlaceOf(SampleAt(dataLen)) = PlaceOf(SampleAt(dataLen - 1))
    /\ ~SampleAt(dataLen).Bearing.exact
    /\ SampleAt(dataLen).Bearing = SampleAt(dataLen - 1).Bearing

\* C7: the first and the second sample of the output have bearing 0 at every
\* moment of the parse and when it ends.
C7_FirstTwoHaveNoBearing ==
    Running =>
        \A i \in 1..Len(metrology) : i <= 2 => SampleAt(i).Bearing = Degrees(0)

\* a returned output whose first two samples lie at different longitudes and
\* whose third has a computed bearing
C7_Witness ==
    /\ pc = "returned"
    /\ Len(metrology) >= 3
    /\ SampleAt(1).Longitude # SampleAt(2).Longitude
    /\ ~SampleAt(3).Bearing.exact
    /\ SampleAt(1).Bearing = Degrees(0)
    /\ SampleAt(2).Bearing = Degrees(0)

\* C8: every step leaves the output as it is or appends the pointer data to
\* it, the latter exactly on a data line; after every step the output has one
\* entry per data line processed and dataLen is its length.
C8_OutputGrowsByAppend ==
    [][ /\ \/ metrology' = metrology
           \/ /\ InLoop /\ IsDataLine(lines[c])
              /\ metrology' = Append(metrology, data)
        /\ (InLoop /\ IsDataLine(lines[c])) => metrology' # metrology
        /\ dataLen' = Len(metrology')
        /\ Len(metrology') = Cardinality({i \in 1..c' - 1 : IsDataLine(lines'[i])}) ]_vars

\* two blocks with the same id, both in the returned output
C8_Witness ==
    /\ pc = "returned"
    /\ Len(metrology) = 2
    /\ metrology[1] # metrology[2]
    /\ SampleAt(1).ID = 44
    /\ SampleAt(2).ID = 44

\* the last data line before line k (0 if none) and the index lines of the
\* block that ends with the data line k
LastDataBefore(k) ==
    IF DataLinesIn(k - 1) = {} THEN 0
    ELSE CHOOSE i \in DataLinesIn(k - 1) : \A j \in DataLinesIn(k - 1) : j <= i
IndexLinesOf(k) == {i \in LastDataBefore(k) + 1..k - 1 : IsIndexLine(lines[i])}

\* C9: the sample of a data line has id 0 when its block has no index line and
\* when its index line cannot be converted to an integer; a blank line leaves
\* the builder a fresh sample.
C9_IdDefaultsToZero ==
    /\ (Running /\ c > 1 /\ IsDataLine(lines[c - 1])) =>
        /\ IndexLinesOf(c - 1) = {} => SampleAt(dataLen).ID = 0
        /\ (\A i \in IndexLinesOf(c - 1) : Atoi(lines[i]).err # "nil") =>
                SampleAt(dataLen).ID = 0
    /\ JustProcessed(<<>>) =>
        heap[data] = EmptySample /\ \A i \in 1..Len(metrology) : metrology[i] # data

\* C10: a time-range line with a token that fails to parse is reported and
\* does not abort the parse; the start (or end) of the block's sample is the
\* zero-value time, the other token is parsed.
C10_FailedTokenGivesZeroTime ==
    /\ JustProcessed(Chars(BadStartText)) =>
        heap[data].Start = ZeroTime /\ heap[data].End = ClockTime(44) /\ stdout # <<>>
    /\ JustProcessed(Chars(BadEndText)) =>
        heap[data].End = ZeroTime /\ heap[data].Start = ClockTime(43) /\ stdout # <<>>
    /\ (Running /\ c > 2 /\ lines[c - 2] = Chars(BadStartText) /\ IsDataLine(lines[c - 1])) =>
        Len(metrology) = Cardinality(DataLinesIn(c - 1)) /\ SampleAt(dataLen).Start = ZeroTime

\* the digit groups of a time token: the pieces between its separators
\* ':', ',' and '.'
Separators == {":", ",", "."}
Groups(tok) ==
    LET cuts == {i \in 1..Len(tok) : tok[i] \in Separators}
        cut(k) == IF k = 0 THEN 0
                  ELSE IF k > Cardinality(cuts) THEN Len(tok) + 1
                  ELSE CHOOSE i \in cuts : Cardinality({j \in cuts : j < i}) = k - 1
    IN  [k \in 1..Cardinality(cuts) + 1 |-> SubSeq(tok, cut(k - 1) + 1, cut(k) - 1)]

\* a token made of three or four groups of digits, none of them empty
IsTimeToken(tok) ==
    /\ Len(Groups(tok)) \in {3, 4}
    /\ \A k \in 1..Len(Groups(tok)) :
          /\ Groups(tok)[k] # <<>>
          /\ \A i \in 1..Len(Groups(tok)[k]) : Groups(tok)[k][i] \in Digit

\* the number a group of at most 9 digits spells
RECURSIVE GroupValue(_)
GroupValue(g) ==
    IF g = <<>> THEN 0 ELSE GroupValue(SubSeq(g, 1, Len(g) - 1)) * 10 + DigitVal(g[Len(g)])

\* the time of day h:m:s and ms milliseconds, on the date makeTime anchors to
TimeOfDay(h, m, s, ms) == [day |-> 0, sec |-> (h * 60 + m) * 60 + s, nsec |-> ms * 1000000]

\* the loop has just processed a time-range line whose end token is the
\* well-formed one; tok is its start token
StartTokenOf(l) == Matches(l).time[2]
JustParsedStart ==
    /\ Running /\ c > 1
    /\ IsTimeLine(lines[c - 1])
    /\ Matches(lines[c - 1]).time[3] = Chars(GoodEndText)

\* fmt.Printf reported an error of parseSrtTime for the line just processed
ReportedLast == \E k \in 1..Len(stdout) : stdout[k].line = c - 2

\* C11: parseSrtTime succeeds exactly on the tokens made of 4 or 3 groups of
\* digits, returns the hour, minute, second and millisecond they spell (the
\* millisecond 0 for 3 groups), and fails with an error on every other token
\* (empty, fewer than 3 groups, more than 4 groups, an empty group).
C11_SucceedsExactlyOnDigitGroups ==
    JustParsedStart =>
        LET tok == StartTokenOf(lines[c - 1])
            g   == Groups(tok)
        IN  /\ IsTimeToken(tok) <=> ~ReportedLast
            /\ (IsTimeToken(tok) /\ \A k \in 1..Len(g) : Len(g[k]) <= 9) =>
                  heap[data].Start =
                      TimeOfDay(GroupValue(g[1]), GroupValue(g[2]), GroupValue(g[3]),
                                IF Len(g) = 4 THEN GroupValue(g[4]) ELSE 0)

\* the three kinds of line, read off the text: every character is a digit;
\* the text " --> " occurs in the line (the tokens are the runs of digits and
\* ':', '.', ',' on its two sides, which may be empty); the grammar of the
\* data line occurs in the line
AllDigits(l) == \A i \in 1..Len(l) : l[i] \in Digit
HasArrow(l) == \E i \in 1..Len(l) - 4 : SubSeq(l, i, i + 4) = Chars(" --> ")
HasData(l) == Matches(l).data # <<>>

\* C12: every step of the loop goes to the next line; an index line changes
\* the id of the builder only, a line with a time range that is no index line
\* changes its start and end only (whether or not the data grammar matches
\* too), a non-blank line of none of the three kinds changes nothing, and the
\* output changes exactly on a data line that is of neither of the first two
\* kinds, by the append of the builder.
C12_FirstMatchWinsOthersIgnored ==
    [][ InLoop =>
          LET l == lines[c]
          IN  /\ c' = c + 1
              /\ (l # <<>> /\ AllDigits(l)) =>
                    /\ heap' = [heap EXCEPT ![data].ID = heap'[data].ID]
                    /\ UNCHANGED <<data, metrology, dataLen, stdout>>
              /\ (~AllDigits(l) /\ HasArrow(l)) =>
                    /\ heap' = [heap EXCEPT ![data].Start = heap'[data].Start,
                                            ![data].End = heap'[data].End]
                    /\ UNCHANGED <<data, metrology, dataLen>>
              /\ (l # <<>> /\ ~AllDigits(l) /\ ~HasArrow(l) /\ ~HasData(l)) =>
                    UNCHANGED <<heap, data, metrology, dataLen, stdout>>
              /\ metrology' # metrology <=> (~AllDigits(l) /\ ~HasArrow(l) /\ HasData(l))
              /\ metrology' # metrology => metrology' = Append(metrology, data) ]_vars

\* the data line followed by an arrow, taken as a time-range line: it left the
\* output of the data line before it alone; and a line of no kind after it
C12_Witness ==
    /\ JustProcessed(Chars("DJI Mini 2"))
    /\ c > 3
    /\ lines[c - 2] = Chars(DataArrowText)
    /\ lines[c - 3] = Chars(DataPaddedText)
    /\ Len(metrology) = 1
    /\ stdout # <<>>

\* C13: a call on at least 3 bytes never ends in a panic, whatever its lines
\* contain; the index dataLen-1 of the previous sample (counted from 0) is
\* within the output whenever the bearing is computed; and the call returns
\* after the last line, with one sample per data line.
C13_NoLineContentFails ==
    /\ Len(b) >= 3 => pc # "panicked"
    /\ (InLoop /\ IsDataLine(lines[c]) /\ dataLen > 1) =>
          dataLen - 1 \in 0..Len(metrology) - 1
    /\ pc = "returned" =>
          c = Len(lines) + 1 /\ Len(metrology) = Cardinality(DataLinesIn(Len(lines)))

\* a returned call on a file with a time token that failed and three data
\* lines with malformed fields: the bearing was computed for the third
C13_Witness ==
    /\ pc = "returned"
    /\ Len(b) >= 3
    /\ stdout # <<>>
    /\ Len(metrology) >= 3
    /\ SampleAt(3).ISO = 0

\* the samples of the output, field by field
Result == [i \in 1..Len(metrology) |-> SampleAt(i)]

\* C14: a call of parseSRT returns the samples that every earlier call on the
\* same bytes returned, equal field by field.
C14_SameBytesSameResult ==
    (pc = "returned" /\ results # <<>>) =>
        \A k \in 1..Len(results) : results[k] = Result

\* the number written in the line l after the text key: the digits, '.' and
\* '-' that follow its first occurrence
NumberAfter(l, key) ==
    LET at    == {i \in 1..Len(l) - Len(key) + 1 : SubSeq(l, i, i + Len(key) - 1) = key}
        from  == (CHOOSE i \in at : \A j \in at : i <= j) + Len(key)
        stops == {i \in from..Len(l) + 1 : i = Len(l) + 1 \/ l[i] \notin SignedClass}
        to    == CHOOSE i \in stops : \A j \in stops : i <= j
    IN  ParseFloat(SubSeq(l, from, to - 1)).v

\* C15: every sample of the output has the same vertical and horizontal
\* speed; the sample of a data line has the H.S number of the line in both,
\* whatever the V.S number of the line is.
C15_VerticalIsHorizontalSpeed ==
    Running =>
        /\ \A i \in 1..Len(metrology) :
              SampleAt(i).VerticalSpeed = SampleAt(i).HorizontalSpeed
        /\ (c > 1 /\ IsDataLine(lines[c - 1])) =>
              LET hs == NumberAfter(lines[c - 1], Chars("H.S "))
                  vs == NumberAfter(lines[c - 1], Chars("V.S "))
              IN  /\ SampleAt(dataLen).HorizontalSpeed = hs
                  /\ SampleAt(dataLen).VerticalSpeed = hs
                  /\ vs # hs => SampleAt(dataLen).VerticalSpeed # vs

\* two blocks whose data lines differ in the V.S number only: two objects in
\* the returned output, equal in every field
C15_Witness ==
    /\ pc = "returned"
    /\ lines = <<Chars(DataText), Chars(""), Chars(DataClimbText)>>
    /\ Len(metrology) = 2
    /\ metrology[1] # metrology[2]
    /\ SampleAt(1) = SampleAt(2)
    /\ SampleAt(2).VerticalSpeed = Dec(1, 0)

====
